---- MODULE Spec2Model ----
(***************************************************************************)
(* Model of the Redis exercises of alx-backend-storage:                    *)
(*   0x02-redis_basic/exercise.py  Cache, count_calls, call_history        *)
(*   0x02-redis_basic/web.py       cache_response, get_page                *)
(* Both programs talk to the same Redis database (redis.Redis() with the   *)
(* default host, port and db).  Every Redis command is one atomic step;    *)
(* callers are processes whose wrapper code is cut at each command.        *)
(*                                                                         *)
(* What can fail: the SET of Cache.store and the HTTP request of get_page  *)
(* (the "underlying operations"); the commands the wrappers issue (INCR,   *)
(* RPUSH, GET, SETEX) are taken to succeed.  Time is counted in seconds,   *)
(* as the time each expiring key has left.                                 *)
(***************************************************************************)
EXTENDS Integers, Sequences, FiniteSets, TLC

\* ------------------------------------------------------------------ bounds
MaxCalls == 3        \* Cache.store invocations in one behaviour
MaxPageCalls == 2    \* get_page invocations in one behaviour
MaxInits == 1        \* further Cache() constructions in one behaviour

Procs == {"p1", "p2"}      \* concurrent callers of Cache.store / Cache.get
WProcs == {"w1", "w2"}     \* concurrent callers of get_page
URLs == {"u1", "u2"}       \* resource identifiers

\* ------------------------------------------------------- Python / Redis values
\* A Python value is tagged with its type; text and bytes are sequences of
\* characters, so that encoding, decoding and parsing are computed.
\* (every value carries the same fields: v is used by text and bytes, i by int)
PyStr(s) == [t |-> "str", v |-> s, i |-> 0]
PyBytes(b) == [t |-> "bytes", v |-> b, i |-> 0]
PyInt(n) == [t |-> "int", v |-> <<>>, i |-> n]

\* Optional values: a Redis key that is absent, a Python None.
None == <<>>
Some(x) == <<x>>
IsSome(o) == Len(o) = 1
Val(o) == o[1]

DigitChar(d) ==
    CASE d = 0 -> "0" [] d = 1 -> "1" [] d = 2 -> "2" [] d = 3 -> "3"
      [] d = 4 -> "4" [] d = 5 -> "5" [] d = 6 -> "6" [] d = 7 -> "7"
      [] d = 8 -> "8" [] d = 9 -> "9"

RECURSIVE NatDigits(_)
NatDigits(n) == IF n < 10 THEN <<DigitChar(n)>>
                ELSE NatDigits(n \div 10) \o <<DigitChar(n % 10)>>

\* repr() of an int: its decimal digits, with a sign when negative.
IntDigits(n) == IF n < 0 THEN <<"-">> \o NatDigits(0 - n) ELSE NatDigits(n)

\* repr() of one argument, as str(args) prints it inside the tuple.
PyRepr(x) ==
    CASE x.t = "str" -> <<"'">> \o x.v \o <<"'">>
      [] x.t = "bytes" -> <<"b", "'">> \o x.v \o <<"'">>
      [] x.t = "int" -> IntDigits(x.i)

\* str(args) for the one-element tuple args = (data,).
StrArgs(data) == PyStr(<<"(">> \o PyRepr(data) \o <<",", ")">>)

\* str(result): a str is returned as it is, other values print their repr.
StrResult(x) ==
    CASE x.t = "str" -> x
      [] x.t = "bytes" -> PyStr(PyRepr(x))
      [] x.t = "int" -> PyStr(IntDigits(x.i))

\* What redis-py sends for a value: bytes as they are, text encoded, an int
\* as its decimal digits.  Redis keeps and returns bytes only.
Encode(x) ==
    CASE x.t = "bytes" -> x
      [] x.t = "str" -> PyBytes(x.v)
      [] x.t = "int" -> PyBytes(IntDigits(x.i))

\* (mutant) d.decode("utf-8") written as str(d).
Decode_Str(b) == PyStr(PyRepr(b))

\* bytes.decode("utf-8")
Decode(b) == PyStr(b.v)

\* ------------------------------------------------------------------ inputs
DataValues == {PyStr(<<"h", "i">>), PyBytes(<<"f", "o">>), PyInt(12)}
\* str(uuid.uuid4()): the i-th key drawn; no two draws give the same key.
Uuid4(i) == PyStr(<<"k">> \o NatDigits(i))
UUIDs == {Uuid4(i) : i \in 1..MaxCalls}
Contents == {PyStr(<<>>), PyStr(<<"a">>), PyStr(<<"b">>)}
TTL == 10

VARIABLES
    \* the Redis database
    opCount,      \* key "Cache.store": None or Some(n)
    inputs,       \* list "Cache.store:inputs"
    outputs,      \* list "Cache.store:outputs"
    records,      \* [UUIDs -> None or Some(bytes)]
    pageCache,    \* key "cache:<url>": None or Some([content, ttl]), ttl the
                  \* seconds the key has left (0: expired, not yet removed)
    pageCount,    \* key "count:<url>": None or Some(n)
    \* callers of Cache.store, and the result of the last Cache.get
    pc, arg, result, got,
    drawn,        \* the number of keys uuid4 has produced
    \* callers of get_page
    wpc, wurl, response, wret,
    \* bookkeeping of the calls made (not program state)
    history,      \* Cache.store calls finished since the database was last
                  \* flushed, in order of return
    effects,      \* per caller: the store commands its current call has issued
    slot,         \* per caller: where its input and its output record landed
    overlapped,   \* some Cache.store call began while another was in progress
    inits,        \* Cache() constructions after the first
    invoked,      \* [URLs -> number of get_page invocations]
    fetched,      \* [URLs -> number of invocations of the wrapped get_page body]
    fetchFailed,  \* some invocation of the wrapped get_page body raised
    woverlapped,  \* some get_page call began while another was in progress
    expired,      \* some cached response has reached the end of its TTL
    wlog          \* per caller of get_page: what its current call observed

dbVars == <<opCount, inputs, outputs, records, pageCache, pageCount>>
cacheVars == <<pc, arg, result, got, drawn>>
webVars == <<wpc, wurl, response, wret>>
cacheGhost == <<history, effects, slot, overlapped, inits>>
webGhost == <<invoked, fetched, fetchFailed, woverlapped, expired, wlog>>
vars == <<dbVars, cacheVars, webVars, cacheGhost, webGhost>>

\* ------------------------------------------------------------ Redis commands
\* (mutant) SET key 1 in place of INCR: the counter never passes 1.
RedisIncr_SetOne(c) == Some(1)

\* (mutant) the counter is created when absent and left alone afterwards.
RedisIncr_CreateOnly(c) == IF IsSome(c) THEN c ELSE Some(1)

\* (mutant) INCR of an absent key creates it at 0.
RedisIncr_FromZero(c) == IF IsSome(c) THEN Some(Val(c) + 1) ELSE Some(0)

\* INCR: an absent counter counts as 0.
RedisIncr(c) == IF IsSome(c) THEN Some(Val(c) + 1) ELSE Some(1)

\* (mutant) LPUSH in place of RPUSH: the item goes to the head of the list.
RedisRpush_Lpush(list, item) == <<Encode(item)>> \o list

\* (mutant) SADD in place of RPUSH: an item the collection holds is not added.
RedisRpush_Sadd(list, item) ==
    IF \E j \in 1..Len(list) : list[j] = Encode(item) THEN list
    ELSE Append(list, Encode(item))

\* RPUSH: append the encoded item at the tail of the list.
RedisRpush(list, item) == Append(list, Encode(item))

\* (mutant) the expiration is ignored: an expired key is still read.
RedisGetEx_NoExpiry(entry) ==
    IF IsSome(entry) THEN Some(Val(entry).content) ELSE None

\* GET of a key that may carry an expiration: absent once its time is up.
RedisGetEx(entry) ==
    IF IsSome(entry) /\ Val(entry).ttl > 0
    THEN Some(Val(entry).content) ELSE None

\* SETEX: the encoded value, with ttl seconds to live from now.
RedisSetex(value, ttl) == Some([content |-> Encode(value), ttl |-> ttl])

\* One second passes for a key: it has one second less to live.
RedisAge(entry) ==
    IF IsSome(entry) /\ Val(entry).ttl > 0
    THEN Some([Val(entry) EXCEPT !.ttl = @ - 1]) ELSE entry

\* (mutant) only the stored values are deleted; counters and lists stay.
FlushDb_RecordsOnly ==
    /\ records' = [k \in UUIDs |-> None]
    /\ UNCHANGED <<opCount, inputs, outputs, pageCache, pageCount>>

\* (mutant) the keys Cache wrote are deleted one by one; the keys of get_page
\* stay.
FlushDb_OwnKeysOnly ==
    /\ opCount' = None
    /\ inputs' = <<>>
    /\ outputs' = <<>>
    /\ records' = [k \in UUIDs |-> None]
    /\ UNCHANGED <<pageCache, pageCount>>

\* FLUSHDB: every key of the database is gone.
FlushDb ==
    /\ opCount' = None
    /\ inputs' = <<>>
    /\ outputs' = <<>>
    /\ records' = [k \in UUIDs |-> None]
    /\ pageCache' = [u \in URLs |-> None]
    /\ pageCount' = [u \in URLs |-> None]

\* ------------------------------------------------------------------- Init
NoValue == PyBytes(<<>>)
NoSlot == [in |-> 0, out |-> 0]
NoGot == [key |-> NoValue, fn |-> "none", kind |-> "nothing", val |-> NoValue,
          calls |-> 0]
NoLog == [seen |-> "nothing", stored |-> NoValue, fetches |-> 0, wrote |-> None]

\* The state right after the first Cache() (which flushes the database) and
\* the import of web.py.
Init ==
    /\ opCount = None
    /\ inputs = <<>>
    /\ outputs = <<>>
    /\ records = [k \in UUIDs |-> None]
    /\ pageCache = [u \in URLs |-> None]
    /\ pageCount = [u \in URLs |-> None]
    /\ pc = [p \in Procs |-> "idle"]
    /\ arg = [p \in Procs |-> NoValue]
    /\ result = [p \in Procs |-> NoValue]
    /\ got = NoGot
    /\ drawn = 0
    /\ wpc = [w \in WProcs |-> "idle"]
    /\ wurl = [w \in WProcs |-> "u1"]
    /\ response = [w \in WProcs |-> NoValue]
    /\ wret = [w \in WProcs |-> NoValue]
    /\ history = <<>>
    /\ effects = [p \in Procs |-> <<>>]
    /\ slot = [p \in Procs |-> NoSlot]
    /\ overlapped = FALSE
    /\ inits = 0
    /\ invoked = [u \in URLs |-> 0]
    /\ fetched = [u \in URLs |-> 0]
    /\ fetchFailed = FALSE
    /\ woverlapped = FALSE
    /\ expired = FALSE
    /\ wlog = [w \in WProcs |-> NoLog]

\* ----------------------------------------------------------- Cache.store
\* A call of cache.store(data) is cut at its Redis commands: each action is
\* one command together with the local code that leads to the next one.
InFlight == {p \in Procs : pc[p] # "idle"}
\* Calls begun: each has drawn its key, or is on its way to.
StoreCalls == drawn + Cardinality({p \in Procs : pc[p] \in {"call_history", "store"}})

\* The finished call, as the caller saw it.
Finished(p, ok, fx, sl) ==
    [args |-> arg[p], ok |-> ok, ret |-> IF ok THEN result[p] ELSE NoValue,
     effects |-> fx, slot |-> sl]

\* cache.store(data) enters count_calls.wrapper: INCR of the key
\* method.__qualname__, then the call of the wrapped method, which is
\* call_history's wrapper.
CountCallsWrapper(p, data) ==
    /\ pc[p] = "idle"
    /\ StoreCalls < MaxCalls
    /\ arg' = [arg EXCEPT ![p] = data]
    /\ opCount' = RedisIncr(opCount)
    /\ pc' = [pc EXCEPT ![p] = "call_history"]
    /\ effects' = [effects EXCEPT ![p] = <<"INCR">>]
    /\ slot' = [slot EXCEPT ![p] = NoSlot]
    /\ overlapped' = (overlapped \/ InFlight # {})
    /\ UNCHANGED <<inputs, outputs, records, pageCache, pageCount,
                   result, got, drawn, webVars, history, inits, webGhost>>

\* (mutant) the wrapper calls the method first and records no input before.
CallHistoryInput_CallFirst(p) ==
    /\ pc[p] = "call_history"
    /\ pc' = [pc EXCEPT ![p] = "store"]
    /\ UNCHANGED <<dbVars, arg, result, got, drawn, webVars, cacheGhost, webGhost>>

\* call_history.wrapper, before the call: RPUSH of str(args) to the inputs,
\* then the call of Cache.store.
CallHistoryInput(p) ==
    /\ pc[p] = "call_history"
    /\ inputs' = RedisRpush(inputs, StrArgs(arg[p]))
    /\ pc' = [pc EXCEPT ![p] = "store"]
    /\ effects' = [effects EXCEPT ![p] = Append(@, "RPUSH inputs")]
    /\ slot' = [slot EXCEPT ![p].in = Len(inputs')]
    /\ UNCHANGED <<opCount, outputs, records, pageCache, pageCount,
                   arg, result, got, drawn, webVars,
                   history, overlapped, inits, webGhost>>

\* (mutant) the RPUSH to the outputs sits in a finally: it records str(None).
OutputsAfterRaise_Finally(out) == Append(out, PyBytes(<<"N", "o", "n", "e">>))

\* call_history.wrapper when method(self, *args) raises: it has no except and
\* no finally, so the RPUSH to the outputs is skipped.
OutputsAfterRaise(out) == out

\* Cache.store itself: key = str(uuid.uuid4()); SET key data; return key.
\* SET may fail (the connection, or a value redis-py refuses), and then the
\* exception leaves both wrappers and reaches the caller.
Store(p) ==
    /\ pc[p] = "store"
    /\ drawn' = drawn + 1
    /\ \/ /\ records' = [records EXCEPT ![Uuid4(drawn')] = Some(Encode(arg[p]))]
          /\ result' = [result EXCEPT ![p] = Uuid4(drawn')]
          /\ pc' = [pc EXCEPT ![p] = "call_history_out"]
          /\ effects' = [effects EXCEPT ![p] = Append(@, "SET")]
          /\ UNCHANGED <<outputs, arg, slot, history>>
       \/ /\ outputs' = OutputsAfterRaise(outputs)
          /\ pc' = [pc EXCEPT ![p] = "idle"]
          /\ history' = Append(history, Finished(p, FALSE, effects[p], slot[p]))
          /\ arg' = [arg EXCEPT ![p] = NoValue]
          /\ effects' = [effects EXCEPT ![p] = <<>>]
          /\ slot' = [slot EXCEPT ![p] = NoSlot]
          /\ UNCHANGED <<records, result>>
    /\ UNCHANGED <<opCount, inputs, pageCache, pageCount,
                   got, webVars, overlapped, inits, webGhost>>

\* call_history.wrapper, after the call: RPUSH of str(result) to the outputs;
\* return result, which count_calls.wrapper returns to the caller.
CallHistoryOutput(p) ==
    /\ pc[p] = "call_history_out"
    /\ outputs' = RedisRpush(outputs, StrResult(result[p]))
    /\ history' = Append(history,
                         Finished(p, TRUE, Append(effects[p], "RPUSH outputs"),
                                  [slot[p] EXCEPT !.out = Len(outputs')]))
    /\ pc' = [pc EXCEPT ![p] = "idle"]
    /\ arg' = [arg EXCEPT ![p] = NoValue]
    /\ result' = [result EXCEPT ![p] = NoValue]
    /\ effects' = [effects EXCEPT ![p] = <<>>]
    /\ slot' = [slot EXCEPT ![p] = NoSlot]
    /\ UNCHANGED <<opCount, inputs, records, pageCache, pageCount,
                   got, drawn, webVars, overlapped, inits, webGhost>>

\* ------------------------------------------------------------- Cache.get
DigitValue(c) ==
    CASE c = "0" -> 0 [] c = "1" -> 1 [] c = "2" -> 2 [] c = "3" -> 3
      [] c = "4" -> 4 [] c = "5" -> 5 [] c = "6" -> 6 [] c = "7" -> 7
      [] c = "8" -> 8 [] c = "9" -> 9 [] OTHER -> 0 - 1

RECURSIVE DigitsValue(_)
DigitsValue(cs) ==
    IF Len(cs) = 0 THEN 0
    ELSE 10 * DigitsValue(SubSeq(cs, 1, Len(cs) - 1)) + DigitValue(cs[Len(cs)])

AllDigits(cs) == Len(cs) > 0 /\ \A j \in 1..Len(cs) : DigitValue(cs[j]) >= 0

\* int(data) on bytes: the number the digits spell, None for a ValueError.
PyIntOf(b) ==
    IF AllDigits(b.v) THEN Some(PyInt(DigitsValue(b.v)))
    ELSE IF Len(b.v) > 1 /\ b.v[1] = "-" /\ AllDigits(Tail(b.v))
         THEN Some(PyInt(0 - DigitsValue(Tail(b.v))))
         ELSE None

\* The conversions callers hand to get: none, get_str's lambda, get_int's int.
Conversions == {"none", "decode", "int"}

\* (mutant) the conversion in a try/except that answers None.
ApplyFn_Swallow(fn, data) ==
    CASE fn = "decode" -> [kind |-> "value", val |-> Decode(data), calls |-> 1]
      [] fn = "int" -> IF IsSome(PyIntOf(data))
                       THEN [kind |-> "value", val |-> Val(PyIntOf(data)),
                             calls |-> 1]
                       ELSE [kind |-> "None", val |-> NoValue, calls |-> 1]

\* fn(data): the value, or the exception of the conversion; calls counts the
\* invocations of fn.
ApplyFn(fn, data) ==
    CASE fn = "decode" -> [kind |-> "value", val |-> Decode(data), calls |-> 1]
      [] fn = "int" -> IF IsSome(PyIntOf(data))
                       THEN [kind |-> "value", val |-> Val(PyIntOf(data)),
                             calls |-> 1]
                       ELSE [kind |-> "raised", val |-> NoValue, calls |-> 1]

\* (mutant) the conversion is applied before the test for None: fn(None)
\* raises for both conversions.
Get_ConvertFirst(data, fn) ==
    IF fn # "none"
    THEN IF IsSome(data) THEN ApplyFn(fn, Val(data))
         ELSE [kind |-> "raised", val |-> NoValue, calls |-> 1]
    ELSE IF IsSome(data) THEN [kind |-> "value", val |-> Val(data), calls |-> 0]
         ELSE [kind |-> "None", val |-> NoValue, calls |-> 0]

\* Cache.get(key, fn); get_str and get_int are get with fn fixed.
Get(data, fn) ==
    IF ~IsSome(data) THEN [kind |-> "None", val |-> NoValue, calls |-> 0]
    ELSE IF fn # "none" THEN ApplyFn(fn, Val(data))
    ELSE [kind |-> "value", val |-> Val(data), calls |-> 0]

\* got keeps the call with its outcome: which key, which conversion.
CacheGet(k, fn) ==
    /\ got' = [key |-> k, fn |-> fn] @@ Get(records[k], fn)
    /\ UNCHANGED <<dbVars, pc, arg, result, drawn, webVars, cacheGhost, webGhost>>

\* ---------------------------------------------------------- Cache.__init__
\* Another Cache() against the same database: FLUSHDB.
CacheInit ==
    /\ inits < MaxInits
    /\ inits' = inits + 1
    /\ FlushDb
    /\ history' = <<>>
    /\ UNCHANGED <<cacheVars, webVars, effects, slot, overlapped, webGhost>>

\* ---------------------------------------------------------------- get_page
WInFlight == {w \in WProcs : wpc[w] # "idle"}
PageCalls == invoked["u1"] + invoked["u2"]

\* What a caller's GET found under cache:<url>, for the record of its call.
Seen(entry) ==
    IF ~IsSome(entry) THEN "absent"
    ELSE IF Val(entry).ttl > 0 THEN "live" ELSE "expired"

\* Python's truth value of cached_content: None and b"" are false.
Truthy(c) == IsSome(c) /\ Len(Val(c).v) > 0

\* (mutant) count_key without the url: one counter key for every url.
WrapperIncr_OneCounter(w, url) ==
    /\ wpc[w] = "idle"
    /\ PageCalls < MaxPageCalls
    /\ wurl' = [wurl EXCEPT ![w] = url]
    /\ pageCount' = [u \in URLs |-> RedisIncr(pageCount[u])]
    /\ wpc' = [wpc EXCEPT ![w] = "get"]
    /\ invoked' = [invoked EXCEPT ![url] = @ + 1]
    /\ woverlapped' = (woverlapped \/ WInFlight # {})
    /\ wlog' = [wlog EXCEPT ![w] = NoLog]
    /\ UNCHANGED <<opCount, inputs, outputs, records, pageCache,
                   cacheVars, response, wret, cacheGhost,
                   fetched, fetchFailed, expired>>

\* get_page(url) enters cache_response's wrapper: redis_client.incr(count_key)
WrapperIncr(w, url) ==
    /\ wpc[w] = "idle"
    /\ PageCalls < MaxPageCalls
    /\ wurl' = [wurl EXCEPT ![w] = url]
    /\ pageCount' = [pageCount EXCEPT ![url] = RedisIncr(@)]
    /\ wpc' = [wpc EXCEPT ![w] = "get"]
    /\ invoked' = [invoked EXCEPT ![url] = @ + 1]
    /\ woverlapped' = (woverlapped \/ WInFlight # {})
    /\ wlog' = [wlog EXCEPT ![w] = NoLog]
    /\ UNCHANGED <<opCount, inputs, outputs, records, pageCache,
                   cacheVars, response, wret, cacheGhost,
                   fetched, fetchFailed, expired>>

\* (mutant) a hit renews the entry's 10 seconds (GETEX ... EX 10).
WrapperGet_Sliding(w) ==
    /\ wpc[w] = "get"
    /\ LET cached_content == RedisGetEx(pageCache[wurl[w]])
       IN IF Truthy(cached_content)
          THEN /\ wret' = [wret EXCEPT ![w] = Decode(Val(cached_content))]
               /\ wpc' = [wpc EXCEPT ![w] = "returned"]
               /\ pageCache' = [pageCache EXCEPT
                                    ![wurl[w]] = Some([Val(@) EXCEPT !.ttl = TTL])]
          ELSE /\ wpc' = [wpc EXCEPT ![w] = "fetch"]
               /\ UNCHANGED <<wret, pageCache>>
    /\ wlog' = [wlog EXCEPT ![w].seen = Seen(pageCache[wurl[w]]),
                            ![w].stored = IF IsSome(pageCache[wurl[w]])
                                          THEN Val(pageCache[wurl[w]]).content
                                          ELSE NoValue]
    /\ UNCHANGED <<opCount, inputs, outputs, records, pageCount,
                   cacheVars, wurl, response, cacheGhost,
                   invoked, fetched, fetchFailed, woverlapped, expired>>

\* cached_content = redis_client.get(cache_key); if cached_content: return
\* cached_content.decode("utf-8")
WrapperGet(w) ==
    /\ wpc[w] = "get"
    /\ LET cached_content == RedisGetEx(pageCache[wurl[w]])
       IN IF Truthy(cached_content)
          THEN /\ wret' = [wret EXCEPT ![w] = Decode(Val(cached_content))]
               /\ wpc' = [wpc EXCEPT ![w] = "returned"]
          ELSE /\ wpc' = [wpc EXCEPT ![w] = "fetch"]
               /\ UNCHANGED wret
    /\ wlog' = [wlog EXCEPT ![w].seen = Seen(pageCache[wurl[w]]),
                            ![w].stored = IF IsSome(pageCache[wurl[w]])
                                          THEN Val(pageCache[wurl[w]]).content
                                          ELSE NoValue]
    /\ UNCHANGED <<dbVars, cacheVars, wurl, response, cacheGhost,
                   invoked, fetched, fetchFailed, woverlapped, expired>>

\* (mutant) the wrapper catches the exception and caches an empty response.
CacheAfterRaise_CacheEmpty(entry) == RedisSetex(PyStr(<<>>), TTL)

\* The wrapper when method(url) raises: it has no except and no finally, so
\* the SETEX is skipped and the key cache:<url> stays as it is.
CacheAfterRaise(entry) == entry

\* response = method(url): requests.get(url).text, which returns some text or
\* raises; the exception leaves the wrapper.
WrapperFetch(w) ==
    /\ wpc[w] = "fetch"
    /\ fetched' = [fetched EXCEPT ![wurl[w]] = @ + 1]
    /\ wlog' = [wlog EXCEPT ![w].fetches = @ + 1]
    /\ \/ \E c \in Contents :
             /\ response' = [response EXCEPT ![w] = c]
             /\ wpc' = [wpc EXCEPT ![w] = "setex"]
             /\ UNCHANGED <<pageCache, fetchFailed>>
       \/ /\ wpc' = [wpc EXCEPT ![w] = "raised"]
          /\ pageCache' = [pageCache EXCEPT ![wurl[w]] = CacheAfterRaise(@)]
          /\ fetchFailed' = TRUE
          /\ UNCHANGED response
    /\ UNCHANGED <<opCount, inputs, outputs, records, pageCount,
                   cacheVars, wurl, wret, cacheGhost,
                   invoked, woverlapped, expired>>

\* (mutant) setex(cache_key, 10, url): the url is cached in place of the text.
WrapperSetex_StoresUrl(w) ==
    /\ wpc[w] = "setex"
    /\ pageCache' = [pageCache EXCEPT
                         ![wurl[w]] = RedisSetex(PyStr(<<wurl[w]>>), TTL)]
    /\ wret' = [wret EXCEPT ![w] = response[w]]
    /\ wpc' = [wpc EXCEPT ![w] = "returned"]
    /\ wlog' = [wlog EXCEPT ![w].wrote = pageCache'[wurl[w]]]
    /\ UNCHANGED <<opCount, inputs, outputs, records, pageCount,
                   cacheVars, wurl, response, cacheGhost,
                   invoked, fetched, fetchFailed, woverlapped, expired>>

\* redis_client.setex(cache_key, 10, response); return response
WrapperSetex(w) ==
    /\ wpc[w] = "setex"
    /\ pageCache' = [pageCache EXCEPT ![wurl[w]] = RedisSetex(response[w], TTL)]
    /\ wret' = [wret EXCEPT ![w] = response[w]]
    /\ wpc' = [wpc EXCEPT ![w] = "returned"]
    /\ wlog' = [wlog EXCEPT ![w].wrote = pageCache'[wurl[w]]]
    /\ UNCHANGED <<opCount, inputs, outputs, records, pageCount,
                   cacheVars, wurl, response, cacheGhost,
                   invoked, fetched, fetchFailed, woverlapped, expired>>

\* The call is over: the caller has the text, or the exception.
GetPageReturn(w) ==
    /\ wpc[w] \in {"returned", "raised"}
    /\ wpc' = [wpc EXCEPT ![w] = "idle"]
    /\ response' = [response EXCEPT ![w] = NoValue]
    /\ wret' = [wret EXCEPT ![w] = NoValue]
    /\ wlog' = [wlog EXCEPT ![w] = NoLog]
    /\ UNCHANGED <<dbVars, cacheVars, wurl, cacheGhost,
                   invoked, fetched, fetchFailed, woverlapped, expired>>

\* A second passes: every key with an expiration ages.
Tick ==
    /\ \E u \in URLs : RedisAge(pageCache[u]) # pageCache[u]
    /\ pageCache' = [u \in URLs |-> RedisAge(pageCache[u])]
    /\ expired' = (expired \/ \E u \in URLs : pageCache'[u] # None
                                              /\ Val(pageCache'[u]).ttl = 0)
    /\ UNCHANGED <<opCount, inputs, outputs, records, pageCount,
                   cacheVars, webVars, cacheGhost,
                   invoked, fetched, fetchFailed, woverlapped, wlog>>

\* ------------------------------------------------------------ specifications
\* Cache.store as the callers in P run it on the values in D.
StoreOpsOf(P, D) ==
    \/ \E p \in P, data \in D : CountCallsWrapper(p, data)
    \/ \E p \in P : CallHistoryInput(p)
    \/ \E p \in P : Store(p)
    \/ \E p \in P : CallHistoryOutput(p)

\* Cache.store as the callers in P run it.
StoreOps(P) == StoreOpsOf(P, DataValues)

\* Cache.get with a conversion of F.
GetOpsOf(F) == \E k \in UUIDs, fn \in F : CacheGet(k, fn)

\* Cache.get, get_str and get_int.
GetOps == GetOpsOf(Conversions)

\* get_page as the callers in W run it on the urls in U.
WebOpsOf(W, U) ==
    \/ \E w \in W, url \in U : WrapperIncr(w, url)
    \/ \E w \in W : WrapperGet(w)
    \/ \E w \in W : WrapperFetch(w)
    \/ \E w \in W : WrapperSetex(w)
    \/ \E w \in W : GetPageReturn(w)

WebNext == WebOpsOf(WProcs, URLs) \/ Tick

\* One Cache instance and the concurrent callers of its store.
SpecStore == Init /\ [][StoreOps(Procs)]_vars

\* One Cache instance and one caller of its store, get, get_str and get_int.
SpecGet == Init /\ [][StoreOps({"p1"}) \/ GetOps]_vars

\* One caller of store and of get without a conversion, while further Cache
\* instances are constructed against the same database.
SpecRestart == Init /\ [][StoreOps({"p1"}) \/ GetOpsOf({"none"}) \/ CacheInit]_vars

\* The concurrent callers of get_page, and the clock.
SpecWeb == Init /\ [][WebNext]_vars

\* One caller of store and one caller of get_page on the one database, while
\* further Cache instances are constructed against it.
SpecShared ==
    Init /\ [][\/ StoreOpsOf({"p1"}, {PyInt(12)})
               \/ WebOpsOf({"w1"}, {"u1"})
               \/ CacheInit]_vars

\* Both programs on the one database.
Next == StoreOps(Procs) \/ GetOps \/ CacheInit \/ WebNext
Spec == Init /\ [][Next]_vars

\* ======================================================================
\* Claims about exercise.py, checked under SpecStore unless said otherwise
\* ======================================================================
Idle == InFlight = {}
Calls == 1..Len(history)
Failed == {i \in Calls : ~history[i].ok}
Returned == {i \in Calls : history[i].ok}
StoreOrder == <<"INCR", "RPUSH inputs", "SET", "RPUSH outputs">>
IsPrefix(s, t) == Len(s) <= Len(t) /\ SubSeq(t, 1, Len(s)) = s

\* C2: on a fresh store the counter under "Cache.store" equals the number of
\* invocations made, whether they returned, failed or are still running
\* their underlying operation: it is absent before the first call and is
\* incremented once per invocation, before Cache.store itself runs.
C2_CounterEqualsInvocations ==
    LET n == Len(history) + Cardinality(InFlight)
    IN /\ (n = 0 => opCount = None)
       /\ (n > 0 => opCount = Some(n))
       /\ \A p \in Procs : pc[p] = "store" => IsSome(opCount)

C2_Witness ==
    /\ Idle
    /\ Len(history) = 3
    /\ Failed # {} /\ Returned # {}
    /\ opCount = Some(3)

\* C3: after n sequential successful calls on a fresh store both lists hold n
\* records, and the i-th output is the key the i-th call returned and the
\* i-th input is str(args) of that same call (as the bytes Redis keeps).
C3_SequentialHistoryMatchesCalls ==
    (Idle /\ ~overlapped /\ Failed = {}) =>
        /\ Len(inputs) = Len(history)
        /\ Len(outputs) = Len(history)
        /\ \A i \in Calls :
              /\ outputs[i] = Encode(StrResult(history[i].ret))
              /\ inputs[i] = Encode(StrArgs(history[i].args))
              /\ history[i].slot = [in |-> i, out |-> i]

C3_Witness ==
    /\ Idle /\ ~overlapped /\ Failed = {}
    /\ Len(history) = 3
    /\ history[1].args # history[2].args
    /\ history[2].args # history[3].args
    /\ inputs[1] = PyBytes(<<"(", "'", "h", "i", "'", ",", ")">>)
    /\ outputs[1] = PyBytes(<<"k", "1">>)

\* C4 (the claim as stated): once all calls have returned, the input and the
\* output of every call sit at the same index, however the RPUSH steps of
\* concurrent callers interleaved.
C4_ConcurrentHistoryAligned ==
    (Idle /\ Failed = {}) =>
        \A i \in Calls : history[i].slot.in = history[i].slot.out

\* C5: a store call whose underlying operation failed issued INCR and the
\* RPUSH of its input and nothing else; its increment is still counted, its
\* input record is still in the list, and no output record was appended for
\* it (the outputs hold one record per call that returned).
C5_FailureKeepsBeforeEffects ==
    /\ \A i \in Failed :
          /\ history[i].effects = <<"INCR", "RPUSH inputs">>
          /\ history[i].slot.out = 0
          /\ history[i].slot.in \in 1..Len(inputs)
          /\ inputs[history[i].slot.in] = Encode(StrArgs(history[i].args))
    /\ Failed # {} => IsSome(opCount) /\ Val(opCount) >= Len(history)
    /\ Len(outputs) = Cardinality(Returned)

C5_Witness ==
    /\ Idle
    /\ Cardinality(Failed) = 1
    /\ Cardinality(Returned) = 2
    /\ ~history[2].ok
    /\ Len(inputs) = 3 /\ Len(outputs) = 2 /\ opCount = Some(3)

\* C6 (the claim as stated): every call, successful or not, contributes one
\* aligned input/output pair, so the lists are equally long whenever no call
\* is in progress.
C6_EveryCallContributesPair ==
    Idle =>
        /\ Len(inputs) = Len(outputs)
        /\ \A i \in Calls : history[i].slot.in >= 1 /\ history[i].slot.out >= 1

\* C6 (amended): a call that returns contributes one input and one output
\* record, a call that fails contributes its input record only; so whenever
\* no call is in progress len(inputs) = len(outputs) + the number of failed
\* calls.
C6_PairPerReturnedCall ==
    Idle =>
        /\ Len(outputs) = Cardinality(Returned)
        /\ Len(inputs) = Len(outputs) + Cardinality(Failed)
        /\ \A i \in Returned : history[i].slot.in >= 1 /\ history[i].slot.out >= 1
        /\ \A i \in Failed : history[i].slot.in >= 1 /\ history[i].slot.out = 0

C6_Witness ==
    /\ Idle
    /\ Cardinality(Failed) = 2
    /\ Cardinality(Returned) = 1
    /\ Len(inputs) = 3 /\ Len(outputs) = 1

\* C7: the commands of one store call are issued in the order INCR, RPUSH to
\* the inputs, SET, RPUSH to the outputs: at every moment a call has issued a
\* prefix of that order, a call that returned has issued all four, and each
\* command's effect is in the store before the next one is issued.
C7_SideEffectOrder ==
    /\ \A p \in InFlight :
          /\ IsPrefix(effects[p], StoreOrder)
          /\ pc[p] = "call_history" => Len(effects[p]) = 1 /\ IsSome(opCount)
          /\ pc[p] = "store" =>
                /\ Len(effects[p]) = 2
                /\ inputs[slot[p].in] = Encode(StrArgs(arg[p]))
          /\ pc[p] = "call_history_out" =>
                /\ Len(effects[p]) = 3
                /\ records[result[p]] = Some(Encode(arg[p]))
                /\ slot[p].out = 0
    /\ \A i \in Returned : history[i].effects = StoreOrder
    /\ \A i \in Failed : IsPrefix(history[i].effects, StoreOrder)

C7_Witness ==
    /\ \E p \in Procs : pc[p] = "call_history_out"
    /\ \E p \in Procs : pc[p] = "store"
    /\ Returned # {}

\* ======================================================================
\* Claims about Cache instances constructed again, checked under SpecRestart
\* ======================================================================
CounterValue(c) == IF IsSome(c) THEN Val(c) ELSE 0

\* C8 (the claim as stated): across store calls, get calls and constructions
\* of further Cache instances the counter never decreases and both lists
\* only grow at the tail.
C8_StateSurvivesEveryOperation ==
    [][/\ CounterValue(opCount') >= CounterValue(opCount)
       /\ IsPrefix(inputs, inputs')
       /\ IsPrefix(outputs, outputs')]_vars

\* C8 (amended): across store calls and get calls the counter never decreases
\* and both lists only grow at the tail (a get changes neither); constructing
\* a Cache flushes the database, so the counter and both lists are absent
\* right after it and nothing survives the restart.
C8_StateSurvivesCallsNotConstruction ==
    [][IF inits' # inits
       THEN opCount' = None /\ inputs' = <<>> /\ outputs' = <<>>
       ELSE /\ CounterValue(opCount') >= CounterValue(opCount)
            /\ IsPrefix(inputs, inputs')
            /\ IsPrefix(outputs, outputs')
            /\ (got' # got => dbVars' = dbVars)]_vars

C8_Witness ==
    /\ inits = 1
    /\ drawn = 3
    /\ opCount = Some(1)
    /\ Len(inputs) = 1 /\ Len(outputs) = 1
    /\ got.kind = "value"

WIdle == WInFlight = {}
CountOf(n) == IF n = 0 THEN None ELSE Some(n)

\* C1 (the claim as stated): a call that finds a cached response that has
\* not expired, whatever its content (the empty text too), does not invoke
\* the underlying fetch and returns the stored content; hence sequential
\* calls for one identifier within one TTL window, starting from an empty
\* cache, invoke the fetch exactly once and count every call.
C1_LiveEntryIsServed ==
    /\ \A w \in WProcs :
          wlog[w].seen = "live" =>
              /\ wlog[w].fetches = 0
              /\ wpc[w] # "fetch"
              /\ wpc[w] = "returned" => wret[w] = Decode(wlog[w].stored)
    /\ (WIdle /\ ~woverlapped /\ ~fetchFailed /\ ~expired) =>
          \A u \in URLs :
              invoked[u] >= 1 => fetched[u] = 1 /\ pageCount[u] = Some(invoked[u])

\* C9: every invocation of get_page(id) increments the counter of id exactly
\* once, on a hit, on a miss and on a failed fetch, under any interleaving:
\* the counter always equals the invocations made for id, and so it does
\* once all have finished.
C9_AccessCounterCountsInvocations ==
    \A u \in URLs : pageCount[u] = CountOf(invoked[u])

C9_Witness ==
    /\ WIdle
    /\ woverlapped
    /\ fetchFailed
    /\ invoked["u1"] = 2
    /\ fetched["u1"] = 2
    /\ pageCount["u1"] = Some(2)

\* C10: a call that finds the cached response of its identifier expired is a
\* miss: it invokes the underlying fetch (once), and when the fetch returns it
\* writes the fetched content with a fresh TTL of 10 seconds and returns the
\* fetched content.
C10_ExpiredEntryIsRefetched ==
    \A w \in WProcs :
        wlog[w].seen = "expired" =>
            /\ wpc[w] \in {"fetch", "setex", "returned", "raised"}
            /\ wpc[w] \in {"setex", "returned", "raised"} => wlog[w].fetches = 1
            /\ wpc[w] = "returned" =>
                  /\ wret[w] = response[w]
                  /\ wlog[w].wrote = Some([content |-> Encode(response[w]),
                                           ttl |-> 10])

C10_Witness ==
    \E w \in WProcs :
        /\ wpc[w] = "returned"
        /\ wlog[w].seen = "expired"
        /\ wlog[w].stored = PyBytes(<<"a">>)
        /\ wret[w] = PyStr(<<"b">>)
        /\ pageCache[wurl[w]] = Some([content |-> PyBytes(<<"b">>), ttl |-> 10])
        /\ fetched[wurl[w]] = 2

\* C11: when the underlying fetch fails, the call ends with the exception and
\* without a return value; the failing step writes nothing under cache:<id>
\* (whatever is there stays as it is), the call has written no entry, and the
\* increment of count:<id> it made on entry is still counted.
C11_FailedFetchWritesNothing ==
    [][\A w \in WProcs :
        /\ wpc'[w] = "raised" =>
                /\ wlog'[w].fetches = 1
                /\ wlog'[w].wrote = None
                /\ wret'[w] = NoValue
                /\ IsSome(pageCount'[wurl'[w]])
                /\ Val(pageCount'[wurl'[w]]) = invoked'[wurl'[w]]
        /\ (\/ wpc[w] = "fetch" /\ wpc'[w] = "raised"
            \/ wpc[w] = "raised" /\ wpc'[w] = "idle") =>
                /\ pageCache' = pageCache
                /\ pageCount' = pageCount]_vars

C11_Witness ==
    \E w \in WProcs :
        /\ wpc[w] = "raised"
        /\ wlog[w].seen = "expired"
        /\ pageCache[wurl[w]] = Some([content |-> PyBytes(<<"a">>), ttl |-> 0])
        /\ pageCount[wurl[w]] = Some(2)

\* Two callers of get_page(u) that are both past their GET without a hit and
\* have both invoked the fetch: the race of C12.
BothMissed(u) ==
    \A w \in WProcs : /\ wurl[w] = u
                      /\ wlog[w].seen \in {"absent", "expired"}
                      /\ wlog[w].fetches = 1

\* C12: the check-then-fetch-and-set is not atomic: two concurrent callers of
\* get_page(u) on an absent or expired entry can both miss and both fetch (the
\* witness); whenever that has happened and both calls have come back, each
\* caller returns the text it fetched itself and the entry holds one of the
\* two fetched texts.
C12_RacingMissesBothServed ==
    \A u \in URLs :
        (BothMissed(u) /\ \A w \in WProcs : wpc[w] = "returned") =>
            /\ \A w \in WProcs : wret[w] = response[w]
            /\ IsSome(pageCache[u])
            /\ Val(pageCache[u]).content \in {Encode(response[w]) : w \in WProcs}

C12_Witness ==
    /\ BothMissed("u1")
    /\ \A w \in WProcs : wpc[w] = "returned"
    /\ fetched["u1"] = 2
    /\ wret["w1"] = PyStr(<<"a">>)
    /\ wret["w2"] = PyStr(<<"b">>)
    /\ pageCache["u1"] = Some([content |-> PyBytes(<<"a">>), ttl |-> TTL])

\* ======================================================================
\* Claims about Cache.get, get_str and get_int, checked under SpecGet
\* ======================================================================
\* A step that is a call of get, get_str or get_int.
GetStep == got' # got

\* C13: get, get_str and get_int of a key that is absent return None: nothing
\* is raised, the conversion is not invoked, and the store is left as it was.
C13_AbsentKeyGivesNone ==
    [][(GetStep /\ ~IsSome(records[got'.key])) =>
            /\ got'.kind = "None"
            /\ got'.calls = 0
            /\ dbVars' = dbVars]_vars

C13_Witness ==
    /\ got.kind = "None"
    /\ got.fn = "int"
    /\ got.key = Uuid4(2)
    /\ ~IsSome(records[Uuid4(2)])
    /\ IsSome(records[Uuid4(1)])

\* C14: round trip. For a key that a call store(v) returned: get(key) with no
\* conversion returns the bytes v was stored as, get_str(key) returns v when
\* v is a text, and get_int(key) returns v when v is an integer.
C14_RoundTrip ==
    [][GetStep =>
        \A i \in 1..Len(history) :
            (history[i].ok /\ history[i].ret = got'.key) =>
                LET v == history[i].args
                IN /\ got'.fn = "none" =>
                        got'.kind = "value" /\ got'.val = Encode(v)
                   /\ (got'.fn = "decode" /\ v.t = "str") =>
                        got'.kind = "value" /\ got'.val = v
                   /\ (got'.fn = "int" /\ v.t = "int") =>
                        got'.kind = "value" /\ got'.val = v]_vars

C14_Witness ==
    /\ Len(history) >= 1
    /\ history[1].ok
    /\ history[1].args = PyInt(12)
    /\ records[history[1].ret] = Some(PyBytes(<<"1", "2">>))
    /\ got.key = history[1].ret
    /\ got.fn = "int"
    /\ got.kind = "value"
    /\ got.val = PyInt(12)

\* Bytes that int() cannot read: some character is no digit, sign, underscore
\* or blank.
NonNumeric(b) ==
    \E j \in 1..Len(b.v) :
        b.v[j] \notin {"0", "1", "2", "3", "4", "5", "6", "7", "8", "9",
                       "-", "+", "_", " "}

\* C15: get_int of a key that is present and holds bytes that are no number:
\* the error of the conversion leaves get, the conversion was invoked once,
\* and the store is left as it was.
C15_ConversionErrorPropagates ==
    [][(/\ GetStep
        /\ got'.fn = "int"
        /\ IsSome(records[got'.key])
        /\ NonNumeric(Val(records[got'.key]))) =>
            /\ got'.kind = "raised"
            /\ got'.calls = 1
            /\ dbVars' = dbVars]_vars

C15_Witness ==
    /\ got.kind = "raised"
    /\ got.fn = "int"
    /\ got.calls = 1
    /\ records[got.key] = Some(PyBytes(<<"h", "i">>))

\* A step of caller w's GET that is a hit.
HitStep(w) == wpc[w] = "get" /\ wpc'[w] = "returned"

\* C17: a hit does not refresh the entry: the step of a hit leaves content and
\* expiration of every entry as they were. An entry's remaining time changes
\* only where a caller that fetched writes it anew with 10 seconds, or where a
\* second passes and takes one second off; so the entry expires 10 seconds
\* after the last fetch that wrote it, however many hits come in between.
C17_HitDoesNotRefresh ==
    [][/\ \A w \in WProcs : HitStep(w) => pageCache' = pageCache
       /\ \A u \in URLs :
            pageCache'[u] # pageCache[u] =>
                \/ \E w \in WProcs :
                       /\ wpc[w] = "setex" /\ wpc'[w] = "returned"
                       /\ wurl[w] = u
                       /\ wlog[w].fetches = 1
                       /\ pageCache'[u] = Some([content |-> Encode(response[w]),
                                                ttl |-> 10])
                \/ /\ wpc' = wpc
                   /\ IsSome(pageCache[u])
                   /\ Val(pageCache[u]).ttl > 0
                   /\ pageCache'[u] =
                          Some([content |-> Val(pageCache[u]).content,
                                ttl |-> Val(pageCache[u]).ttl - 1])]_vars

C17_Witness ==
    \E w \in WProcs :
        /\ wpc[w] = "returned"
        /\ wlog[w].seen = "live"
        /\ wlog[w].fetches = 0
        /\ fetched[wurl[w]] = 1
        /\ pageCache[wurl[w]] = Some([content |-> PyBytes(<<"a">>), ttl |-> 1])

\* A step of caller w inside get_page.
CallerStep(w) == wpc'[w] # wpc[w]

\* C19: get_page(u) changes only the state of u: every step of a call, be it
\* a hit, a miss or a failed fetch, leaves the access counter and the cached
\* response (content and expiration) of every other url as they were.
C19_OtherUrlsUntouched ==
    [][\A w \in WProcs :
        CallerStep(w) =>
            \A u \in URLs \ {wurl'[w]} :
                /\ pageCount'[u] = pageCount[u]
                /\ pageCache'[u] = pageCache[u]]_vars

C19_Witness ==
    \E w \in WProcs :
        /\ wurl[w] = "u1"
        /\ wpc[w] = "returned"
        /\ wlog[w].wrote # None
        /\ pageCount["u1"] = Some(1)
        /\ pageCount["u2"] = Some(1)
        /\ pageCache["u2"] = Some([content |-> PyBytes(<<"b">>), ttl |-> 3])

\* ======================================================================
\* Claims about both programs on one database, checked under SpecShared
\* ======================================================================
\* C18: constructing a Cache flushes the whole shared database: right after
\* the construction every stored value, the counter of store, both history
\* lists, and every cached response and access counter of get_page are absent.
C18_ConstructionFlushesEverything ==
    [][inits' # inits =>
        /\ \A k \in UUIDs : records'[k] = None
        /\ opCount' = None
        /\ inputs' = <<>>
        /\ outputs' = <<>>
        /\ \A u \in URLs : pageCache'[u] = None /\ pageCount'[u] = None]_vars

C18_Witness ==
    /\ inits = 1
    /\ pc["p1"] = "call_history_out"
    /\ \A k \in UUIDs : records[k] = None
    /\ opCount = None /\ inputs = <<>> /\ outputs = <<>>
    /\ wpc["w1"] = "returned"
    /\ wlog["w1"].wrote # None
    /\ invoked[wurl["w1"]] = 1
    /\ \A u \in URLs : pageCache[u] = None /\ pageCount[u] = None

====
